---------------------------- MODULE Spec2Model ----------------------------
(***************************************************************************)
(* Model of the sync-reconciliation engine of the Hevy dashboard           *)
(* (app/services/sync.py, app/models.py, app/db.py, app/main.py), of the   *)
(* fetch orchestrator and upstream normalizer (app/services/hevy_client.py)*)
(* and of the metrics engine (app/services/stats.py).  Each part has its   *)
(* own specification: Spec and SpecConc for reconciliation runs, SpecFetch *)
(* for one fetch, SpecNorm for one raw record, SpecStats for one metrics   *)
(* call on the Workout rows, SpecInsights for one call of a metric that    *)
(* reads the sets; the variables of the other parts stay as they are.      *)
(*                                                                         *)
(* The store is the four tables of app/models.py.  A reconciliation run is *)
(* one call of sync_latest_workouts or sync_all_workouts; it owns one      *)
(* AsyncSession (db.py: autoflush=False), whose unit of work is modelled   *)
(* as the objects added but not yet flushed (pend), the rows flushed into  *)
(* the open transaction but not yet committed (tx), and the committed      *)
(* tables.  One action is one await of the coroutine together with the     *)
(* synchronous code that follows it up to the next await: the event loop   *)
(* switches between runs only at an await.                                 *)
(*                                                                         *)
(* The database is the default of settings.py, SQLite: a SELECT of a run   *)
(* sees the committed rows and the rows of its own open transaction; one   *)
(* connection at a time holds the write lock, from its first INSERT to its *)
(* COMMIT or ROLLBACK; a new rowid is one more than the largest in the     *)
(* table.                                                                  *)
(***************************************************************************)
EXTENDS Integers, Sequences, FiniteSets, TLC

\* ------------------------------------------------------------- bounds
MaxRuns == 2
MaxBatch == 2
MaxLogs == 2
MaxItems == 3
MaxSets == 1
MaxRev == 2
ConcItems == 2
MaxConcRuns == 2

\* ---------------------------------------------------------- constants
\* WorkoutExercise.id / SetLog.workout_exercise_id before the flush: None.
NoId == 0
\* HevySet.rpe default: None.
NoRpe == 0

Sessions == {1, 2}
WorkoutIds == {"w1", "w2"}
ExerciseIds == {"e1", "e2"}
Revs == 1 .. MaxRev
Triggers == {"scheduler", "sync_now", "sync_all"}

SeqsUpTo(S, n) == UNION {[1 .. k -> S] : k \in 0 .. n}

\* ------------------------------------------------- canonical payloads
\* HevySet: weight, reps, rpe.
HevySet == {[weight |-> 50, reps |-> 5, rpe |-> NoRpe]}

Min(a, b) == IF a <= b THEN a ELSE b

\* HevyExerciseLog of upstream revision r: the exercise (id, name) and its sets.
HevyExerciseLog(r) ==
  [exercise : [id : ExerciseIds, name : {<<"name", r>>}],
   sets : SeqsUpTo(HevySet, MaxSets)]

\* HevyWorkout: upstream revision r of a workout, with at most n exercise logs.
HevyWorkout(r, n) ==
  [id : WorkoutIds, title : {<<"title", r>>}, started_at : {<<"start", r>>},
   ended_at : {<<"end", r>>}, notes : {<<"notes", r>>},
   logs : SeqsUpTo(HevyExerciseLog(r), Min(n, MaxLogs))]

\* Workouts plus exercise logs of a fetched batch.
RECURSIVE Items(_)
Items(ws) == IF ws = <<>> THEN 0 ELSE 1 + Len(Head(ws).logs) + Items(Tail(ws))

\* The lists of at most k workouts of revision r holding at most n items.
RECURSIVE Batches(_, _, _)
Batches(r, k, n) ==
  IF k = 0 \/ n = 0 THEN {<<>>}
  ELSE {<<>>} \cup
       UNION {{<<w>> \o rest : rest \in Batches(r, k - 1, n - 1 - Len(w.logs))} :
                w \in HevyWorkout(r, n - 1)}

\* What fetch_latest_workouts / fetch_all_workouts may return: a list of
\* canonical workouts, possibly empty, possibly naming an id twice; one fetch
\* sees one upstream revision.
Payloads == UNION {Batches(r, MaxBatch, MaxItems) : r \in Revs}

\* The batches drawn when runs overlap.
ConcPayloads == Batches(1, MaxBatch, ConcItems)

VARIABLES
  dbWorkout,      \* committed rows of table workout
  dbExercise,     \* committed rows of table exercise
  dbLink,         \* committed rows of table workoutexercise
  dbSet,          \* committed rows of table setlog
  writer,         \* the session holding SQLite's write lock, 0 if none
  session,        \* per run: the coroutine's locals and its AsyncSession
  runs,           \* runs started so far
  committedPayloads,  \* history: the payloads of the runs that committed
  concNew,        \* history: per run, the ids new to it and to an overlapping run
  fetch,          \* one call of fetch_latest_workouts / fetch_all_workouts
  norm,           \* one raw record on its way through the normalizer into Set rows
  stats           \* one call of a metrics operation

syncVars == <<dbWorkout, dbExercise, dbLink, dbSet, writer, session, runs, committedPayloads, concNew>>
vars == <<syncVars, fetch, norm, stats>>

\* A component that takes no part in the specification at hand.
Off == [pc |-> "off"]

EmptyRows == [W |-> {}, E |-> {}, L |-> {}, S |-> {}]
EmptyPend == [W |-> <<>>, E |-> <<>>, L |-> <<>>, S |-> <<>>]
Committed == [W |-> dbWorkout, E |-> dbExercise, L |-> dbLink, S |-> dbSet]

Idle ==
  [pc |-> "idle", trigger |-> "scheduler", workouts |-> <<>>, wi |-> 0, li |-> 0,
   inserted |-> 0, db_ex |-> "", db_rel |-> NoId, pend |-> EmptyPend, tx |-> EmptyRows,
   result |-> 0, response |-> [kind |-> "none", n |-> 0], raised |-> FALSE, committed |-> FALSE,
   before |-> EmptyRows, prev |-> {}, errAt |-> 0, wrote |-> FALSE]

Init ==
  /\ dbWorkout = {}
  /\ dbExercise = {}
  /\ dbLink = {}
  /\ dbSet = {}
  /\ writer = 0
  /\ session = [s \in Sessions |-> Idle]
  /\ runs = 0
  /\ committedPayloads = {}
  /\ concNew = [s \in Sessions |-> {}]
  /\ fetch = Off
  /\ norm = Off
  /\ stats = Off

\* ------------------------------------------------------ the database
Range(q) == {q[i] : i \in DOMAIN q}
Ids(rows) == {x.id : x \in rows}
MaxId(rows) == IF rows = {} THEN 0 ELSE CHOOSE m \in Ids(rows) : \A x \in Ids(rows) : x <= m

PkUnchecked(rows, q) == FALSE

\* Workout.id and Exercise.id are primary keys: an INSERT of the rows q fails
\* (IntegrityError) when a key is already in the table or occurs twice in q.
PkViolation(rows, q) ==
  \/ \E i \in DOMAIN q : q[i].id \in Ids(rows)
  \/ \E i, j \in DOMAIN q : i # j /\ q[i].id = q[j].id

\* SetLog.workout_exercise_id is a non-optional int: NOT NULL.
NotNullViolation(q) == \E i \in DOMAIN q : q[i].workout_exercise_id = NoId

\* id: Optional[int] primary key, assigned by the store on INSERT.
Autoincrement(rows, q) == {[q[i] EXCEPT !.id = MaxId(rows) + i] : i \in DOMAIN q}

\* What the statements of run s read: the committed rows and its own transaction's.
View(s) ==
  [W |-> dbWorkout \cup session[s].tx.W, E |-> dbExercise \cup session[s].tx.E,
   L |-> dbLink \cup session[s].tx.L, S |-> dbSet \cup session[s].tx.S]

\* session.flush(): INSERT every pending object, parents first.
FlushOk(view, p) ==
  /\ ~PkViolation(view.W, p.W)
  /\ ~PkViolation(view.E, p.E)
  /\ ~NotNullViolation(p.S)

Flushed(view, tx, p) ==
  [W |-> tx.W \cup Range(p.W), E |-> tx.E \cup Range(p.E),
   L |-> tx.L \cup Autoincrement(view.L, p.L), S |-> tx.S \cup Autoincrement(view.S, p.S)]

\* ------------------------------------------------- the entry points
\* The scheduler job and POST /sync-now call sync_latest_workouts, POST /sync-all
\* calls sync_all_workouts.
Path(t) == IF t = "sync_all" THEN "all" ELSE "latest"

\* try: ... return inserted / except Exception: return 0.
SyncReturn(exc, inserted) == [propagates |-> FALSE, value |-> IF exc THEN 0 ELSE inserted]

\* sync_now / sync_all: the redirect with the count, or the error redirect when
\* the sync operation raises.  The scheduler job's return value goes nowhere.
Respond(t, ret) ==
  IF t = "scheduler" THEN [kind |-> "none", n |-> 0]
  ELSE IF ret.propagates THEN [kind |-> "error", n |-> 0]
  ELSE [kind |-> IF t = "sync_now" THEN "synced" ELSE "backfilled", n |-> ret.value]

\* The run ends: the session is closed (an uncommitted transaction is rolled
\* back) and the coroutine's locals are gone.  errAt and wrote are history: the
\* workout an exception interrupted, and whether rows had been flushed by then.
Return(r, exc) ==
  LET ret == SyncReturn(exc, r.inserted)
  IN [r EXCEPT !.pc = "done", !.pend = EmptyPend, !.tx = EmptyRows, !.raised = exc,
               !.errAt = IF exc THEN r.wi ELSE 0, !.wrote = exc /\ r.tx # EmptyRows,
               !.result = ret.value, !.response = Respond(r.trigger, ret),
               !.wi = 0, !.li = 0, !.inserted = 0, !.db_ex = "", !.db_rel = NoId]

WorkoutRowNotesAsTitle(w) ==
  [id |-> w.id, title |-> w.notes, started_at |-> w.started_at,
   ended_at |-> w.ended_at, notes |-> w.notes]

\* Workout(id=w.id, title=w.title, started_at=..., ended_at=..., notes=...)
WorkoutRow(w) ==
  [id |-> w.id, title |-> w.title, started_at |-> w.started_at,
   ended_at |-> w.ended_at, notes |-> w.notes]

\* Exercise(id=log.exercise.id, name=log.exercise.name)
ExerciseRow(log) == [id |-> log.exercise.id, name |-> log.exercise.name]

RelRowSwapped(w, ex) == [id |-> NoId, workout_id |-> ex, exercise_id |-> w.id]

\* WorkoutExercise(workout_id=w.id, exercise_id=db_ex.id)
RelRow(w, ex) == [id |-> NoId, workout_id |-> w.id, exercise_id |-> ex]

\* SetLog(workout_exercise_id=db_rel.id, weight=s.weight, reps=s.reps, rpe=s.rpe);
\* of_workout and of_exercise record the log the set came from (history only).
SetRow(rel, w, log, s) ==
  [id |-> NoId, workout_exercise_id |-> rel, weight |-> s.weight, reps |-> s.reps,
   rpe |-> s.rpe, of_workout |-> w.id, of_exercise |-> log.exercise.id]

CurWorkout(r) == r.workouts[r.wi]
CurLog(r) == CurWorkout(r).logs[r.li]

\* for w in workouts: the next workout, or the commit after the last.
NextWorkout(r) ==
  IF r.wi < Len(r.workouts)
  THEN [r EXCEPT !.wi = @ + 1, !.li = 0, !.db_ex = "", !.db_rel = NoId, !.pc = "q_workout"]
  ELSE [r EXCEPT !.li = 0, !.db_ex = "", !.db_rel = NoId, !.pc = "commit"]

\* for log in w.logs: the first log, or on to the next workout when there is none.
FirstLog(r) ==
  IF Len(CurWorkout(r).logs) = 0 THEN NextWorkout(r)
  ELSE [r EXCEPT !.li = 1, !.pc = "q_exercise"]

AddSetsSkipExisting(r, rel) ==
  LET w == CurWorkout(r)
      log == CurLog(r)
      rows == IF w.id \in Ids(r.before.W) THEN <<>>
              ELSE [i \in DOMAIN log.sets |-> SetRow(rel, w, log, log.sets[i])]
      r1 == [r EXCEPT !.db_rel = rel, !.pend.S = @ \o rows]
  IN IF r.li < Len(w.logs) THEN [r1 EXCEPT !.li = @ + 1, !.pc = "q_exercise"]
     ELSE NextWorkout(r1)

\* for s in log.sets: session.add(SetLog(...)); then the next log or workout.
AddSets(r, rel) ==
  LET w == CurWorkout(r)
      log == CurLog(r)
      rows == [i \in DOMAIN log.sets |-> SetRow(rel, w, log, log.sets[i])]
      r1 == [r EXCEPT !.db_rel = rel, !.pend.S = @ \o rows]
  IN IF r.li < Len(w.logs) THEN [r1 EXCEPT !.li = @ + 1, !.pc = "q_exercise"]
     ELSE NextWorkout(r1)

Running(s) == session[s].pc \notin {"idle", "done"}
Fresh(r) == {r.workouts[i].id : i \in DOMAIN r.workouts} \ Ids(r.before.W)

\* A run starts: the fetch returns ws; an empty result returns 0 at once.
Start(s, t, ws) ==
  /\ session[s].pc = "idle"
  /\ runs' = runs + 1
  /\ LET r0 == [Idle EXCEPT !.trigger = t, !.workouts = ws, !.before = Committed,
                            !.prev = committedPayloads]
         r == IF ws = <<>> THEN Return(r0, FALSE) ELSE [r0 EXCEPT !.wi = 1, !.pc = "q_workout"]
         others == {u \in Sessions \ {s} : Running(u)}
     IN /\ session' = [session EXCEPT ![s] = r]
        /\ concNew' = [u \in Sessions |->
              IF u = s THEN Fresh(r) \cap UNION {Fresh(session[x]) : x \in others}
              ELSE IF u \in others THEN concNew[u] \cup (Fresh(r) \cap Fresh(session[u]))
              ELSE concNew[u]]
  /\ UNCHANGED <<dbWorkout, dbExercise, dbLink, dbSet, writer, committedPayloads>>

AbortKeepsFlushed(s) ==
  /\ session' = [session EXCEPT ![s] = Return(@, TRUE)]
  /\ writer' = IF writer = s THEN 0 ELSE writer
  /\ dbWorkout' = dbWorkout \cup session[s].tx.W
  /\ dbExercise' = dbExercise \cup session[s].tx.E
  /\ dbLink' = dbLink \cup session[s].tx.L
  /\ dbSet' = dbSet \cup session[s].tx.S
  /\ UNCHANGED <<runs, committedPayloads, concNew>>

\* An exception leaves the session block: rollback, lock released, return 0.
Abort(s) ==
  /\ session' = [session EXCEPT ![s] = Return(@, TRUE)]
  /\ writer' = IF writer = s THEN 0 ELSE writer
  /\ UNCHANGED <<dbWorkout, dbExercise, dbLink, dbSet, runs, committedPayloads, concNew>>

Continue(s, r) ==
  /\ session' = [session EXCEPT ![s] = r]
  /\ UNCHANGED <<dbWorkout, dbExercise, dbLink, dbSet, writer, runs, committedPayloads, concNew>>

AddWorkoutCountsSeen(r, w, exists) ==
  IF exists = {}
  THEN [r EXCEPT !.pend.W = Append(@, WorkoutRow(w)), !.inserted = @ + 1]
  ELSE [r EXCEPT !.inserted = @ + 1]

\* if exists.first() is None: session.add(Workout(...)); inserted += 1
AddWorkout(r, w, exists) ==
  IF exists = {}
  THEN [r EXCEPT !.pend.W = Append(@, WorkoutRow(w)), !.inserted = @ + 1]
  ELSE r

\* exists = await session.exec(select(Workout).where(Workout.id == w.id)); add it
\* when absent.  In sync_latest_workouts the else branch reads exists.first() a
\* second time: a result already consumed by first() returns None again or raises
\* ResourceClosedError, depending on the SQLAlchemy release installed.
QueryWorkout(s) ==
  LET r == session[s]
      w == CurWorkout(r)
      exists == {x \in View(s).W : x.id = w.id}
  IN /\ r.pc = "q_workout"
     /\ \/ Continue(s, FirstLog(AddWorkout(r, w, exists)))
        \/ exists # {} /\ Path(r.trigger) = "latest" /\ Abort(s)

\* ex_q = await session.exec(select(Exercise).where(Exercise.id == log.exercise.id))
QueryExercise(s) ==
  LET r == session[s]
      log == CurLog(r)
      found == {x \in View(s).E : x.id = log.exercise.id}
  IN /\ r.pc = "q_exercise"
     /\ IF found = {}
        THEN Continue(s, [r EXCEPT !.pend.E = Append(@, ExerciseRow(log)),
                                   !.db_ex = log.exercise.id, !.pc = "q_rel"])
        ELSE \E x \in found : Continue(s, [r EXCEPT !.db_ex = x.id, !.pc = "q_rel"])

RelMatchesSwapped(view, w, ex) == {x \in view.L : x.workout_id = ex /\ x.exercise_id = w.id}

RelMatchesAnyWorkout(view, w, ex) == {x \in view.L : x.exercise_id = ex}

\* The rows the relation lookup matches.
RelMatches(view, w, ex) == {x \in view.L : x.workout_id = w.id /\ x.exercise_id = ex}

\* rel_q = await session.exec(select(WorkoutExercise).where(...)); db_rel = rel_q.first()
QueryRel(s) ==
  LET r == session[s]
      w == CurWorkout(r)
      found == RelMatches(View(s), w, r.db_ex)
  IN /\ r.pc = "q_rel"
     /\ IF found = {}
        THEN Continue(s, [r EXCEPT !.pend.L = Append(@, RelRow(w, r.db_ex)), !.pc = "flush"])
        ELSE \E x \in found : Continue(s, AddSets(r, x.id))

\* await session.flush() after session.add(db_rel): db_rel.id is assigned.
FlushRel(s) ==
  LET r == session[s]
      view == View(s)
  IN /\ r.pc = "flush"
     /\ writer \in {0, s}
     /\ IF FlushOk(view, r.pend)
        THEN /\ session' = [session EXCEPT ![s] =
                  AddSets([r EXCEPT !.tx = Flushed(view, r.tx, r.pend), !.pend = EmptyPend],
                          MaxId(view.L) + Len(r.pend.L))]
             /\ writer' = s
             /\ UNCHANGED <<dbWorkout, dbExercise, dbLink, dbSet, runs, committedPayloads, concNew>>
        ELSE Abort(s)

\* await session.commit(): flush what is pending (that takes the write lock),
\* then COMMIT.
Commit(s) ==
  LET r == session[s]
      view == View(s)
      all == Flushed(view, r.tx, r.pend)
      r1 == [r EXCEPT !.tx = EmptyRows, !.pend = EmptyPend, !.committed = TRUE]
  IN /\ r.pc = "commit"
     /\ r.pend = EmptyPend \/ writer \in {0, s}
     /\ IF FlushOk(view, r.pend)
        THEN /\ dbWorkout' = dbWorkout \cup all.W
             /\ dbExercise' = dbExercise \cup all.E
             /\ dbLink' = dbLink \cup all.L
             /\ dbSet' = dbSet \cup all.S
             /\ writer' = IF writer = s THEN 0 ELSE writer
             /\ committedPayloads' = committedPayloads \cup {r.workouts}
             /\ session' = [session EXCEPT ![s] = [r1 EXCEPT !.pc = "close"]]
             /\ UNCHANGED <<runs, concNew>>
        ELSE Abort(s)

\* After the commit, still inside the try: sync_all_workouts prints "committed",
\* and both paths leave the session block, which closes the session.  Either
\* returns normally, and the run returns inserted, or raises.
CloseSession(s) ==
  /\ session[s].pc = "close"
  /\ \/ Continue(s, Return(session[s], FALSE))
     \/ Continue(s, Return(session[s], TRUE))

\* Any await or unguarded print of the session block raises (a persistence
\* error, a lock timeout, a failing write to stdout).
Raise(s) ==
  /\ session[s].pc \in {"q_workout", "q_exercise", "q_rel", "flush", "commit"}
  /\ Abort(s)

\* The caller has its answer; the coroutine's frame is gone.
Finish(s) ==
  /\ session[s].pc = "done"
  /\ session' = [session EXCEPT ![s] = Idle]
  /\ concNew' = [concNew EXCEPT ![s] = {}]
  /\ UNCHANGED <<dbWorkout, dbExercise, dbLink, dbSet, writer, runs, committedPayloads>>

Step(s) ==
  \/ QueryWorkout(s)
  \/ QueryExercise(s)
  \/ QueryRel(s)
  \/ FlushRel(s)
  \/ Commit(s)
  \/ CloseSession(s)
  \/ Raise(s)
  \/ Finish(s)

\* Runs that do not overlap: a run starts when no other is in progress, each
\* in a session of its own (the first slot, free again).
Quiet == \A u \in Sessions : session[u].pc = "idle"

Next ==
  \/ \E s \in {1}, t \in Triggers, ws \in Payloads :
       runs < MaxRuns /\ Quiet /\ Start(s, t, ws) /\ UNCHANGED <<fetch, norm, stats>>
  \/ \E s \in Sessions : Step(s) /\ UNCHANGED <<fetch, norm, stats>>

Spec == Init /\ [][Next]_vars

\* The code as it is: nothing keeps a trigger from starting a run while another
\* is in progress.
NextConc ==
  \/ \E s \in Sessions, t \in Triggers, ws \in ConcPayloads :
       runs < MaxConcRuns /\ Start(s, t, ws) /\ UNCHANGED <<fetch, norm, stats>>
  \/ \E s \in Sessions : Step(s) /\ UNCHANGED <<fetch, norm, stats>>

SpecConc == Init /\ [][NextConc]_vars

\* ------------------------------------------------ the upstream normalizer
\* (app/services/hevy_client.py, the parse loops of fetch_latest_workouts and
\* fetch_all_workouts).  A raw record is a JSON value of unknown shape; the
\* model keeps the shapes the code tells apart.  A key that is missing (dict.get
\* gives None) is Absent for a number and NoStr for a string.
MaxRawLogs == 2
MaxRawSets == 1

Absent == 0 - 1
NoStr == "<absent>"
\* A JSON value of a type the canonical model rejects (an object for a string).
Obj == "<object>"

\* Python truth of a number or None, and of a string or None.
Truthy(v) == v # Absent /\ v # 0
TruthyStr(v) == v # NoStr /\ v # ""

\* a or b
Or(a, b) == IF Truthy(a) THEN a ELSE b
OrStr(a, b) == IF TruthyStr(a) THEN a ELSE b

\* str.strip() over the strings of the model.
Strip(v) == IF v = " " THEN "" ELSE v

\* str(raw.get("id"))
Str(v) == <<"str", v>>

\* The three places that resolve a set's weight.
WeightPaths == {"latest", "all", "detail"}

\* float(s.get("weight_kg") or s.get("weight") or 0)                    (latest)
\* float(s.get("weight_kg") or s.get("weight") or s.get("kg") or s.get("lbs") or 0)
\*                                                                    (backfill)
\* float(s.get("weight") or s.get("kg") or s.get("lbs") or 0)           (detail)
ResolveWeight(s, path) ==
  IF path = "latest" THEN Or(s.weight_kg, Or(s.weight, 0))
  ELSE IF path = "all" THEN Or(s.weight_kg, Or(s.weight, Or(s.kg, Or(s.lbs, 0))))
  ELSE Or(s.weight, Or(s.kg, Or(s.lbs, 0)))

\* HevySet(weight=..., reps=int(s.get("reps") or s.get("rep") or 0), rpe=s.get("rpe"))
ParseSet(s, path) == [weight |-> ResolveWeight(s, path), reps |-> Or(s.reps, 0), rpe |-> NoRpe]
ParseSets(sets, path) == [i \in DOMAIN sets |-> ParseSet(sets[i], path)]

\* Inline logs: the resolved id and name, and whether the log is kept.
PrimaryId(rl) == Strip(OrStr(rl.id, ""))
PrimaryName(rl) == Strip(OrStr(rl.name, "Unknown"))
KeepPrimary(rl) == PrimaryId(rl) # "" \/ PrimaryName(rl) # "Unknown"
PrimaryLog(rl, path) ==
  [exercise |-> [id |-> OrStr(PrimaryId(rl), PrimaryName(rl)), name |-> PrimaryName(rl)],
   sets |-> ParseSets(rl.sets, path)]

\* Detail logs: the id falls back to the nested name.
DetailId(rl) == Strip(OrStr(rl.id, IF rl.name = NoStr THEN "" ELSE rl.name))
DetailName(rl) == Strip(OrStr(rl.name, "Unknown"))
KeepDetail(rl) == DetailId(rl) # "" \/ DetailName(rl) # ""
DetailLog(rl) ==
  [exercise |-> [id |-> OrStr(DetailId(rl), DetailName(rl)), name |-> DetailName(rl)],
   sets |-> ParseSets(rl.sets, "detail")]

Malformed(rl) == rl.kind # "dict"

\* try: for rl in raw_logs: ... logs.append(...) / except Exception: logs = []
\* One log that is not a mapping raises in rl.get and empties the whole list.
PrimaryLogs(raw_logs, path) ==
  IF \E i \in DOMAIN raw_logs : Malformed(raw_logs[i])
  THEN [exc |-> TRUE, logs |-> <<>>]
  ELSE LET kept == SelectSeq(raw_logs, KeepPrimary)
       IN [exc |-> FALSE, logs |-> [i \in DOMAIN kept |-> PrimaryLog(kept[i], path)]]

\* try: detail = await client.get_workout_detail(...); for rl in dlogs: ...
\* logs.append(...) / except Exception: pass.  The logs appended before a failure
\* stay.
DetailLogs(detail) ==
  IF ~detail.ok THEN [exc |-> TRUE, logs |-> <<>>]
  ELSE LET bad == {i \in DOMAIN detail.logs : Malformed(detail.logs[i])}
           k == IF bad = {} THEN Len(detail.logs) + 1
                ELSE CHOOSE i \in bad : \A j \in bad : i <= j
           kept == SelectSeq(SubSeq(detail.logs, 1, k - 1), KeepDetail)
       IN [exc |-> bad # {}, logs |-> [i \in DOMAIN kept |-> DetailLog(kept[i])]]

\* _parse_dt(str(started)) or datetime.utcnow()
ParseStart(v) == IF v = NoStr THEN "utcnow" ELSE <<"dt", v>>

\* One pass of "for raw in items": the canonical workout, whether an exception
\* escaped the loop body (raw is not a mapping, or HevyWorkout(...) rejects a
\* field), whether one was caught inside it, and whether the detail resource
\* was requested (include_logs is True in both callers).
NormalizeItem(raw, detail, path) ==
  LET primary == PrimaryLogs(raw.logs, path)
      needs == primary.logs = <<>>
      dl == IF needs THEN DetailLogs(detail) ELSE [exc |-> FALSE, logs |-> <<>>]
  IN IF raw.kind # "dict"
     THEN [escaped |-> TRUE, caught |-> FALSE, asked |-> FALSE, workout |-> <<>>]
     ELSE [escaped |-> raw.title = Obj,
           caught |-> primary.exc \/ dl.exc,
           asked |-> needs,
           workout |-> [id |-> Str(raw.id), title |-> raw.title,
                        started_at |-> ParseStart(raw.start), ended_at |-> NoStr,
                        notes |-> NoStr,
                        logs |-> IF needs THEN dl.logs ELSE primary.logs]]

\* The raw shapes drawn.
RawSets ==
  [weight_kg : {Absent, 0, 50}, weight : {Absent, 60}, kg : {Absent, 70},
   lbs : {Absent, 110}, reps : {5}]

PlainSet == [weight_kg |-> 50, weight |-> Absent, kg |-> Absent, lbs |-> Absent, reps |-> 5]
ScalarLog == [kind |-> "scalar", id |-> NoStr, name |-> NoStr, sets |-> <<>>]

RawLogs ==
  {ScalarLog}
  \cup [kind : {"dict"}, id : {"e1"}, name : {"Squat"}, sets : SeqsUpTo(RawSets, MaxRawSets)]
  \cup [kind : {"dict"}, id : {NoStr, " ", "e1"}, name : {NoStr, " ", "Unknown", "Squat"},
        sets : {<<PlainSet>>}]

RawWorkouts ==
  {[kind |-> "scalar", id |-> 1, title |-> NoStr, start |-> NoStr, logs |-> <<>>]}
  \cup [kind : {"dict"}, id : {1}, title : {"t", Obj}, start : {NoStr, "iso"},
        logs : SeqsUpTo(RawLogs, MaxRawLogs)]

LbsSet == [weight_kg |-> Absent, weight |-> Absent, kg |-> Absent, lbs |-> 110, reps |-> 5]
\* A log that names no exercise: neither an id nor a name.
NamelessLog == [kind |-> "dict", id |-> NoStr, name |-> NoStr, sets |-> <<PlainSet>>]
DetailRawLogs ==
  {ScalarLog, NamelessLog}
  \cup [kind : {"dict"}, id : {"e1"}, name : {"Squat", "Unknown"},
        sets : {<<PlainSet>>, <<LbsSet>>}]

\* What GET /v1/workouts/{id} answers: an error, or a body with logs.
Details ==
  {[ok |-> FALSE, logs |-> <<>>]}
  \cup [ok : {TRUE}, logs : SeqsUpTo(DetailRawLogs, MaxRawLogs)]

\* ----------------------------------------- one record, raw to persisted
\* The Set rows sync's loops build from one canonical workout: for log in
\* w.logs: for s in log.sets: session.add(SetLog(...)), under the link row rel.
RECURSIVE SetRowsOf(_, _)
SetRowsOf(r, rel) == IF r.pc = "q_exercise" THEN SetRowsOf(AddSets(r, rel), rel) ELSE r.pend.S

NormInit ==
  /\ \E path \in {"latest", "all"}, raw \in RawWorkouts, detail \in Details :
       norm = [pc |-> "raw", path |-> path, raw |-> raw, detail |-> detail,
               out |-> <<>>, rows |-> <<>>]
  /\ dbWorkout = {} /\ dbExercise = {} /\ dbLink = {} /\ dbSet = {}
  /\ writer = 0 /\ session = [s \in Sessions |-> Idle] /\ runs = 0
  /\ committedPayloads = {} /\ concNew = [s \in Sessions |-> {}]
  /\ fetch = Off
  /\ stats = Off

\* The record goes through the parse loop of the path.
NormalizeRecord ==
  /\ norm.pc = "raw"
  /\ norm' = [norm EXCEPT !.pc = "canonical",
                          !.out = NormalizeItem(norm.raw, norm.detail, norm.path)]
  /\ UNCHANGED <<syncVars, fetch, stats>>

\* The reconciliation run builds the Set rows of the canonical workout.
PersistSets ==
  /\ norm.pc = "canonical"
  /\ ~norm.out.escaped
  /\ norm' = [norm EXCEPT !.pc = "stored",
        !.rows = SetRowsOf(FirstLog([Idle EXCEPT !.workouts = <<norm.out.workout>>, !.wi = 1]), 1)]
  /\ UNCHANGED <<syncVars, fetch, stats>>

NextNorm == NormalizeRecord \/ PersistSets

SpecNorm == NormInit /\ [][NextNorm]_vars

\* ------------------------------------------ the fetch orchestrator
\* (hevy_client.py, fetch_latest_workouts and fetch_all_workouts).  One action
\* is one request to the list endpoint together with the code up to the next
\* request.  The upstream holds n workouts and serves them in pages; what it
\* answers to a request (a page, an error status, a body of another shape, a
\* connection failure) is its choice at every request, but that it answers 401
\* to the first request of at most MaxRetryPages pages.  The process's stdout
\* accepts every print.
MaxUpstream == 12
BigUpstream == 52
MaxRetryPages == 1

\* page_size = min(max(1, limit), 50)
MaxPageSize == 50
\* client._client.get("/v1/workouts", params={"page": page, "pageSize": 5})
BackfillPageSize == 5

Max(a, b) == IF a >= b THEN a ELSE b

\* The raw records the upstream's workouts are copies of (but for the id): a
\* plain one, one whose log list holds a log that is not a mapping, one that is
\* not a mapping itself, one whose title is not a string, one with only lbs.
PlainLog == [kind |-> "dict", id |-> "e1", name |-> "Squat", sets |-> <<PlainSet>>]
PlainRaw == [kind |-> "dict", id |-> 1, title |-> "t", start |-> "iso", logs |-> <<PlainLog>>]
FetchRaws ==
  {PlainRaw,
   [PlainRaw EXCEPT !.logs = <<PlainLog, ScalarLog>>],
   [PlainRaw EXCEPT !.kind = "scalar"],
   [PlainRaw EXCEPT !.title = Obj]}

Upstreams ==
  [n : (0 .. MaxUpstream) \cup {BigUpstream}, cap : {BackfillPageSize, MaxPageSize},
   endless : {FALSE}, raw : FetchRaws, detail : {[ok |-> FALSE, logs |-> <<>>]}]
  \cup [n : {0}, cap : {BackfillPageSize}, endless : {TRUE}, raw : {PlainRaw},
        detail : {[ok |-> FALSE, logs |-> <<>>]}]

\* The workouts page `page` holds when the upstream cuts its list into pages
\* of `size` items (of its own cap when that is smaller).
Slice(up, page, size) ==
  LET eff == Min(size, up.cap)
      first == (page - 1) * eff + 1
      count == IF up.endless THEN eff ELSE Max(0, Min(eff, up.n - first + 1))
  IN [i \in 1 .. count |-> [up.raw EXCEPT !.id = first + i - 1]]

\* What the upstream may answer to GET /v1/workouts?page=..&pageSize=..: status 0
\* stands for a request that raises (no response); body "unknown" is JSON of no
\* recognised shape, "invalid" is no JSON.
Responses(up, page, size) ==
  {[status |-> 200, body |-> "items", items |-> Slice(up, page, size)],
   [status |-> 200, body |-> "unknown", items |-> <<>>],
   [status |-> 200, body |-> "invalid", items |-> <<>>],
   [status |-> 401, body |-> "unknown", items |-> <<>>],
   [status |-> 404, body |-> "unknown", items |-> <<>>],
   [status |-> 500, body |-> "unknown", items |-> <<>>],
   [status |-> 0, body |-> "unknown", items |-> <<>>]}

\* page_items: the list under items / workouts / data, or the bare list; else [].
PageItems(resp) == IF resp.body = "items" THEN resp.items ELSE <<>>

\* The pageSize of the first request for a page, and of its 401 retries.
PrimarySize(f) == IF f.mode = "latest" THEN f.page_size ELSE BackfillPageSize
RetrySize(f) == f.page_size

NoFetch ==
  [pc |-> "page", mode |-> "latest", limit |-> 1, page_size |-> 1, api_key |-> FALSE,
   token |-> FALSE, up |-> <<>>, page |-> 1, items |-> <<>>, collected |-> 0,
   fetched_pages |-> 0, result |-> <<>>, requests |-> <<>>, counts |-> <<>>,
   retried |-> 0, stop |-> "", httpError |-> FALSE, caught |-> FALSE, escaped |-> FALSE, raised |-> FALSE]

\* fetch_latest_workouts(limit) / fetch_all_workouts(page_size) is called.
FetchInit ==
  /\ \E mode \in {"latest", "all"}, limit \in {1, 3, 10, 50, 51}, ps \in {2, 5, 50},
        key \in BOOLEAN, token \in BOOLEAN, up \in Upstreams :
       /\ mode = "latest" => ps = 5
       /\ mode = "all" => limit = 1 /\ ~up.endless /\ up.n <= MaxUpstream
       /\ fetch = [NoFetch EXCEPT !.mode = mode, !.limit = limit,
                     !.page_size = IF mode = "latest" THEN Min(Max(1, limit), MaxPageSize) ELSE ps,
                     !.api_key = key, !.token = token, !.up = up]
  /\ dbWorkout = {} /\ dbExercise = {} /\ dbLink = {} /\ dbSet = {}
  /\ writer = 0 /\ session = [s \in Sessions |-> Idle] /\ runs = 0
  /\ committedPayloads = {} /\ concNew = [s \in Sessions |-> {}]
  /\ norm = Off
  /\ stats = Off

FailKeepsItems(f, http) == [f EXCEPT !.pc = "parse", !.stop = "error", !.httpError = http]

\* except Exception: return [] -- finally: await client.close()
Fail(f, http) ==
  [f EXCEPT !.pc = "close", !.result = <<>>, !.stop = "error", !.httpError = http]

LoopGoesOnPastLimit(f, collected) == f.mode = "latest" => collected <= f.limit

\* while collected < limit (latest) / while True (backfill)
LoopGoesOn(f, collected) == f.mode = "latest" => collected < f.limit

\* resp.raise_for_status(); data = resp.json(); page_items = ...;
\* items.extend(page_items); fetched_pages += 1; collected += len(page_items);
\* if len(page_items) == 0: break; page += 1
TakePage(f, resp) ==
  IF resp.status >= 400 THEN Fail(f, TRUE)
  ELSE IF resp.body = "invalid" THEN Fail(f, FALSE)
  ELSE LET page_items == PageItems(resp)
           collected == IF f.mode = "latest" THEN f.collected + Len(page_items) ELSE 0
           f1 == [f EXCEPT !.items = @ \o page_items, !.fetched_pages = @ + 1,
                           !.collected = collected, !.counts = Append(@, Len(page_items))]
       IN IF Len(page_items) = 0 THEN [f1 EXCEPT !.pc = "parse", !.stop = "empty"]
          ELSE IF LoopGoesOn(f1, collected) THEN [f1 EXCEPT !.page = @ + 1, !.pc = "page"]
          ELSE [f1 EXCEPT !.page = @ + 1, !.pc = "parse", !.stop = "limit"]

\* History: the requests sent to the list endpoint and what each was answered.
Requested(f, size, try, resp) ==
  [f EXCEPT !.requests = Append(@, [page |-> f.page, size |-> size, try |-> try,
                                    status |-> resp.status, body |-> resp.body])]

EndOfDataNever(f, resp) == FALSE

\* if resp.status_code == 404: break          (fetch_all_workouts only)
EndOfData(f, resp) == f.mode = "all" /\ resp.status = 404

\* resp = await client._client.get("/v1/workouts", params={page, pageSize})
GetPage ==
  /\ fetch.pc = "page"
  /\ \E resp \in Responses(fetch.up, fetch.page, PrimarySize(fetch)) :
       LET f0 == Requested(fetch, PrimarySize(fetch), 1, resp)
           f == IF resp.status = 401 THEN [f0 EXCEPT !.retried = @ + 1] ELSE f0
       IN /\ resp.status = 401 => fetch.retried < MaxRetryPages
          /\ fetch' =
               IF resp.status = 0 THEN Fail(f, FALSE)
               ELSE IF EndOfData(f, resp) THEN [f EXCEPT !.pc = "parse", !.stop = "404"]
               ELSE IF resp.status = 401
                    THEN IF f.api_key THEN [f EXCEPT !.pc = "retry_key"]
                         ELSE IF f.token THEN [f EXCEPT !.pc = "retry_token"]
                         ELSE Fail(f, TRUE)
               ELSE TakePage(f, resp)
  /\ UNCHANGED <<syncVars, norm, stats>>

\* if api_key_val: resp2 = await client._client.get(..., headers=alt_headers);
\* if resp2.status_code < 400: resp = resp2
RetryApiKey ==
  /\ fetch.pc = "retry_key"
  /\ \E resp2 \in Responses(fetch.up, fetch.page, RetrySize(fetch)) :
       LET f == Requested(fetch, RetrySize(fetch), 2, resp2)
       IN fetch' =
            IF resp2.status = 0 THEN Fail(f, FALSE)
            ELSE IF resp2.status < 400 THEN TakePage(f, resp2)
            ELSE IF f.token THEN [f EXCEPT !.pc = "retry_token"]
            ELSE Fail(f, TRUE)
  /\ UNCHANGED <<syncVars, norm, stats>>

\* if resp.status_code == 401 and token: resp3 = await client._client.get(...);
\* if resp3.status_code < 400: resp = resp3
RetryToken ==
  /\ fetch.pc = "retry_token"
  /\ \E resp3 \in Responses(fetch.up, fetch.page, RetrySize(fetch)) :
       LET f == Requested(fetch, RetrySize(fetch), 3, resp3)
       IN fetch' =
            IF resp3.status = 0 THEN Fail(f, FALSE)
            ELSE IF resp3.status < 400 THEN TakePage(f, resp3)
            ELSE Fail(f, TRUE)
  /\ UNCHANGED <<syncVars, norm, stats>>

\* for raw in items: ... workouts.append(HevyWorkout(...)); return workouts.  An
\* exception that escapes the loop body ends in except Exception: return [].
ParseItems ==
  /\ fetch.pc = "parse"
  /\ LET path == fetch.mode
         parsed == [i \in DOMAIN fetch.items |-> NormalizeItem(fetch.items[i], fetch.up.detail, path)]
         escaped == \E i \in DOMAIN parsed : parsed[i].escaped
         upto == IF escaped THEN CHOOSE i \in DOMAIN parsed :
                                   parsed[i].escaped /\ \A j \in 1 .. i - 1 : ~parsed[j].escaped
                 ELSE Len(parsed)
     IN fetch' = [fetch EXCEPT !.pc = "close", !.escaped = escaped,
                    !.caught = \E i \in 1 .. upto : parsed[i].caught,
                    !.result = IF escaped THEN <<>>
                               ELSE [i \in DOMAIN parsed |-> parsed[i].workout]]
  /\ UNCHANGED <<syncVars, norm, stats>>

\* finally: await client.close(); the caller has the list.
CloseClient ==
  /\ fetch.pc = "close"
  /\ fetch' = [fetch EXCEPT !.pc = "done"]
  /\ UNCHANGED <<syncVars, norm, stats>>

NextFetch == GetPage \/ RetryApiKey \/ RetryToken \/ ParseItems \/ CloseClient

SpecFetch == FetchInit /\ [][NextFetch]_vars

\* ------------------------------------------------- the metrics engine
\* (app/services/stats.py).  A metrics operation reads the store and returns;
\* the store is the Workout rows, with started_at a day.  Day 0 is Monday
\* 2 October 2023, the first day of ISO week 2023-W40; ISO year 2023 has 52
\* weeks, so day 91 is the Monday of 2024-W01.
MaxWeeklyWorkouts == 2
MaxStreakWorkouts == 4
MaxWords == 3

\* date.isocalendar(): the ISO year and week of a day.
IsoCalendar(d) ==
  LET k == (d \div 7) + 40
  IN IF k <= 52 THEN [year |-> 2023, week |-> k] ELSE [year |-> 2024, week |-> k - 52]

\* date.fromisocalendar(year, week, 1): the Monday of an ISO week.
FromIsoCalendar(year, week) == ((IF year = 2023 THEN week ELSE week + 52) - 40) * 7

\* f"{iso.year}-W{iso.week:02d}": a four-digit year and a two-digit week, so that
\* labels sort as (year, week) pairs do.
WeekKey(d) == <<IsoCalendar(d).year, IsoCalendar(d).week>>
KeyBefore(a, b) == a[1] < b[1] \/ (a[1] = b[1] /\ a[2] < b[2])

\* sorted(...)
RECURSIVE SortedKeys(_)
SortedKeys(S) ==
  IF S = {} THEN <<>>
  ELSE LET m == CHOOSE x \in S : \A y \in S \ {x} : KeyBefore(x, y)
       IN <<m>> \o SortedKeys(S \ {m})

\* weekly_workouts(): twelve seeded buckets from start = now - 12 weeks on, one
\* more for every other week a selected workout falls in.
WeeklyBuckets(now, rows) ==
  LET start == now - 12 * 7
      seeded == {WeekKey(start + 7 * i) : i \in 0 .. 11}
      workouts == {w \in rows : w.started_at >= start}
      keys == seeded \cup {WeekKey(w.started_at) : w \in workouts}
      buckets == [k \in keys |-> Cardinality({w \in workouts : WeekKey(w.started_at) = k})]
      labels == SortedKeys(keys)
  IN [labels |-> labels, data |-> [i \in DOMAIN labels |-> buckets[labels[i]]]]

PrevWeekSameYear(year, week) == <<year, week - 1>>

\* temp_date = date.fromisocalendar(temp_year, temp_week, 1) - timedelta(weeks=1);
\* temp_year, temp_week, _ = temp_date.isocalendar()
PrevWeek(year, week) == WeekKey(FromIsoCalendar(year, week) - 7)

\* while (temp_year, temp_week) in workout_weeks: weeks_with_workout_current += 1
RECURSIVE CurrentStreak(_, _)
CurrentStreak(workout_weeks, key) ==
  IF key \in Range(workout_weeks)
  THEN 1 + CurrentStreak(workout_weeks, PrevWeek(key[1], key[2]))
  ELSE 0

\* for i in range(1, len(workout_weeks)): ... with current_streak and
\* weeks_with_workout_longest as they stand before pass i.
RECURSIVE LongestStreak(_, _, _, _)
LongestStreak(workout_weeks, i, current_streak, longest) ==
  IF i > Len(workout_weeks) THEN Max(longest, current_streak)
  ELSE LET prev_date == FromIsoCalendar(workout_weeks[i - 1][1], workout_weeks[i - 1][2])
           curr_date == FromIsoCalendar(workout_weeks[i][1], workout_weeks[i][2])
       IN IF curr_date - prev_date <= 7
          THEN LongestStreak(workout_weeks, i + 1, current_streak + 1,
                             Max(longest, current_streak + 1))
          ELSE LongestStreak(workout_weeks, i + 1, 1, longest)

\* summary(): the two streak figures.
Streaks(today, rows) ==
  IF rows = {} THEN [weeks_current |-> 0, weeks_longest |-> 0]
  ELSE LET workout_weeks == SortedKeys({WeekKey(w.started_at) : w \in rows})
       IN [weeks_current |-> CurrentStreak(workout_weeks, WeekKey(today)),
           weeks_longest |-> LongestStreak(workout_weeks, 2, 1, 0)]

\* MUSCLE_GROUPS, in the order of the dict.
MUSCLE_GROUPS ==
  <<[group |-> "Chest", keywords |-> {"bench press", "chest fly", "chest press", "push up", "dip", "pec"}],
    [group |-> "Back", keywords |-> {"row", "pull up", "pulldown", "lat pull", "deadlift", "shrug"}],
    [group |-> "Shoulders", keywords |-> {"shoulder press", "lateral raise", "front raise",
                                          "overhead press", "military press", "arnold press"}],
    [group |-> "Biceps", keywords |-> {"curl", "bicep", "hammer curl", "preacher curl",
                                       "concentration curl", "spider curl"}],
    [group |-> "Triceps", keywords |-> {"tricep", "skull crusher", "pushdown", "tricep extension",
                                        "overhead extension", "close grip", "dip"}],
    [group |-> "Legs", keywords |-> {"squat", "leg press", "leg curl", "leg extension", "lunge",
                                     "calf", "hip thrust"}],
    [group |-> "Core", keywords |-> {"crunch", "plank", "ab", "sit up", "russian twist", "leg raise"}],
    [group |-> "Cardio", keywords |-> {"run", "bike", "treadmill", "elliptical", "rowing"}]>>

Keywords(group) == UNION {g.keywords : g \in {x \in Range(MUSCLE_GROUPS) : x.group = group}}

\* keyword in name_lower
Contains(s, k) == \E i \in 1 .. Len(s) - Len(k) + 1 : SubSeq(s, i, i + Len(k) - 1) = k
AnyKeyword(s, keywords) == \E k \in keywords : Contains(s, k)

\* str.lower()
LowerChar(c) ==
  LET upper == "ABCDEFGHIJKLMNOPQRSTUVWXYZ"
      lower == "abcdefghijklmnopqrstuvwxyz"
      at == {i \in 1 .. Len(upper) : SubSeq(upper, i, i) = c}
  IN IF at = {} THEN c ELSE LET i == CHOOSE i \in at : TRUE IN SubSeq(lower, i, i)

RECURSIVE Lower(_)
Lower(s) == IF s = "" THEN "" ELSE LowerChar(SubSeq(s, 1, 1)) \o Lower(SubSeq(s, 2, Len(s)))

\* for muscle_group, keywords in MUSCLE_GROUPS.items(): ... from entry i on.
RECURSIVE OtherGroups(_, _)
OtherGroups(name_lower, i) ==
  IF i > Len(MUSCLE_GROUPS) THEN "Other"
  ELSE IF MUSCLE_GROUPS[i].group \notin {"Biceps", "Triceps"}
          /\ AnyKeyword(name_lower, MUSCLE_GROUPS[i].keywords)
       THEN MUSCLE_GROUPS[i].group
       ELSE OtherGroups(name_lower, i + 1)

CategorizeBicepsFirst(exercise_name) ==
  LET name_lower == Lower(exercise_name)
  IN IF AnyKeyword(name_lower, Keywords("Biceps")) THEN "Biceps"
     ELSE IF AnyKeyword(name_lower, Keywords("Triceps")) THEN "Triceps"
     ELSE OtherGroups(name_lower, 1)

\* categorize_exercise(exercise_name)
categorize_exercise(exercise_name) ==
  LET name_lower == Lower(exercise_name)
  IN IF AnyKeyword(name_lower, Keywords("Biceps")) /\ ~Contains(name_lower, "tricep")
     THEN "Biceps"
     ELSE IF AnyKeyword(name_lower, Keywords("Triceps")) THEN "Triceps"
     ELSE OtherGroups(name_lower, 1)

\* The inputs drawn.  Display names: up to MaxWords of these, run together.
Words == {"Bicep", "bicep", "TRICEP", "tricep", "Curl", "row", "Squat", "Dip", "ab",
          "Yoga", " ", "Bench Press", "run"}
RECURSIVE Names(_)
Names(n) == IF n = 0 THEN {""} ELSE {""} \cup {w \o rest : w \in Words, rest \in Names(n - 1)}

\* Stores of at most n workouts that started on days of D.
StoredRow(i, d) ==
  [id |-> i, title |-> NoStr, started_at |-> d, ended_at |-> NoStr, notes |-> NoStr]
RECURSIVE Stores(_, _)
Stores(n, D) ==
  IF n = 0 THEN {{}}
  ELSE LET less == Stores(n - 1, D)
       IN less \cup UNION {{S \cup {StoredRow(Cardinality(S) + 1, d)} :
                               d \in {e \in D : \A w \in S : w.started_at <= e}} :
                             S \in {T \in less : Cardinality(T) = n - 1}}

\* The start days drawn for weekly_workouts: the Mondays and Sundays of fifteen
\* weeks, and the days around the window's start and end.
WeeklyDays(now) == {d \in 0 .. 104 : d % 7 \in {0, 6}} \cup {now - 85, now - 84, now}
\* ... and for summary: the Mondays and Sundays of 2023-W50 .. 2024-W05.
StreakDays == {7 * k + e : k \in 10 .. 17, e \in {0, 6}}

NoStats == [pc |-> "call", op |-> "", now |-> 0, name |-> "", out |-> <<>>]

\* A metrics operation is called, the store being what earlier runs left.
StatsInit ==
  /\ \/ \E now \in 84 .. 90 :
          /\ stats = [NoStats EXCEPT !.op = "weekly_workouts", !.now = now]
          /\ dbWorkout \in Stores(MaxWeeklyWorkouts, WeeklyDays(now))
     \/ \E k \in 10 .. 20 :
          /\ stats = [NoStats EXCEPT !.op = "summary", !.now = 7 * k + 3]
          /\ dbWorkout \in Stores(MaxStreakWorkouts, StreakDays)
     \/ \E name \in Names(MaxWords) :
          /\ stats = [NoStats EXCEPT !.op = "categorize_exercise", !.name = name]
          /\ dbWorkout = {}
  /\ dbExercise = {} /\ dbLink = {} /\ dbSet = {}
  /\ writer = 0 /\ session = [s \in Sessions |-> Idle] /\ runs = 0
  /\ committedPayloads = {} /\ concNew = [s \in Sessions |-> {}]
  /\ fetch = Off
  /\ norm = Off

Answer(out) ==
  /\ stats' = [stats EXCEPT !.pc = "done", !.out = out]
  /\ UNCHANGED <<syncVars, fetch, norm>>

\* GET /weekly-workouts
weekly_workouts ==
  /\ stats.pc = "call" /\ stats.op = "weekly_workouts"
  /\ Answer(WeeklyBuckets(stats.now, dbWorkout))

\* GET /summary
summary ==
  /\ stats.pc = "call" /\ stats.op = "summary"
  /\ Answer(Streaks(stats.now, dbWorkout))

\* A metrics operation categorizes an exercise name.
Categorize ==
  /\ stats.pc = "call" /\ stats.op = "categorize_exercise"
  /\ Answer(categorize_exercise(stats.name))

NextStats == weekly_workouts \/ summary \/ Categorize

SpecStats == StatsInit /\ [][NextStats]_vars

\* --------------------------------------- the metrics that read the sets
\* (stats.py: exercise_progress, workout_predictions, deload_detection).  Here
\* the store holds all four tables and started_at is a moment in hours, hour 0
\* being Monday 2 October 2023, 00:00.  Weights are whole kilograms in the
\* store; pounds are counted in 1/100000 lb, so that weight_kg * KG_TO_LBS is
\* exact.
MaxProgressSessions == 3

\* KG_TO_LBS = 2.20462
KG_TO_LBS == 220462

Week == 7 * 24

\* datetime.date()
DateOf(t) == t \div 24

\* round(x, 1), in tenths of a pound (no weight of the model falls on a tie).
Round1(x) == (x + 5000) \div 10000

MaxOf(S) == CHOOSE m \in S : \A x \in S : x <= m

\* What reconciliation leaves for a list of sessions, in the order their link
\* rows were inserted: session i is workout i, started at `at`, with one
\* exercise log of exercise `ex` (0: a workout without logs) whose sets weigh
\* `kgs` and count `reps` repetitions each.
Session(at, ex, kgs, reps) == [at |-> at, ex |-> ex, kgs |-> kgs, reps |-> reps]

\* The sets of the logs before log i: SetLog ids are given in insertion order.
RECURSIVE SetsBefore(_, _)
SetsBefore(plan, i) ==
  IF i = 1 THEN 0
  ELSE SetsBefore(plan, i - 1) + (IF plan[i - 1].ex = 0 THEN 0 ELSE Len(plan[i - 1].kgs))

StoreOf(plan) ==
  LET logged == {i \in DOMAIN plan : plan[i].ex # 0}
  IN [W |-> {StoredRow(i, plan[i].at) : i \in DOMAIN plan},
      E |-> {[id |-> plan[i].ex, name |-> <<"name", plan[i].ex>>] : i \in logged},
      L |-> {[id |-> i, workout_id |-> i, exercise_id |-> plan[i].ex] : i \in logged},
      S |-> UNION {{[id |-> SetsBefore(plan, i) + j, workout_exercise_id |-> i,
                     weight |-> plan[i].kgs[j], reps |-> plan[i].reps, rpe |-> NoRpe,
                     of_workout |-> i, of_exercise |-> plan[i].ex] :
                       j \in DOMAIN plan[i].kgs} : i \in logged}]

\* select(WorkoutExercise)...all(): the rows in rowid order.
RECURSIVE ById(_)
ById(rows) ==
  IF rows = {} THEN <<>>
  ELSE LET m == CHOOSE x \in rows : \A y \in rows : x.id <= y.id
       IN <<m>> \o ById(rows \ {m})

\* sets_by_we[we.id]: the sets of a link row.
SetsOf(we) == {s \in dbSet : s.workout_exercise_id = we.id}

\* list.sort(key=lambda x: x["date"]) / sorted(..., key=lambda x: x["date"]):
\* stable, entries with equal keys keep their order.
SortByDate(q) ==
  LET pos(i) == 1 + Cardinality({j \in DOMAIN q :
                     q[j].date < q[i].date \/ (q[j].date = q[i].date /\ j < i)})
  IN [k \in DOMAIN q |-> q[CHOOSE i \in DOMAIN q : pos(i) = k]]

\* exercise_progress: one entry of workout_data per link row that has sets and
\* whose workout exists; max_weight in tenths of a pound.
WorkoutData(exercise_id) ==
  LET workout_exercises == ById({we \in dbLink : we.exercise_id = exercise_id})
      kept == SelectSeq(workout_exercises,
                LAMBDA we : SetsOf(we) # {} /\ \E w \in dbWorkout : w.id = we.workout_id)
      entry(we) ==
        LET workout == CHOOSE w \in dbWorkout : w.id = we.workout_id
        IN [date |-> DateOf(workout.started_at),
            max_weight |-> Round1(MaxOf({0} \cup {s.weight * KG_TO_LBS : s \in SetsOf(we)})),
            workout |-> workout.id]
  IN SortByDate([i \in DOMAIN kept |-> entry(kept[i])])

\* for data in workout_data: if data["max_weight"] > current_pr: ... prs.append(...)
RECURSIVE Prs(_, _, _)
Prs(workout_data, i, current_pr) ==
  IF i > Len(workout_data) THEN <<>>
  ELSE IF workout_data[i].max_weight > current_pr
       THEN <<[date |-> workout_data[i].date, weight |-> workout_data[i].max_weight]>>
              \o Prs(workout_data, i + 1, workout_data[i].max_weight)
       ELSE Prs(workout_data, i + 1, current_pr)

\* exercise_progress(exercise_id): history, prs and current_pr (0 for None).
ExerciseProgress(exercise_id) ==
  IF ~\E e \in dbExercise : e.id = exercise_id THEN [error |-> "Exercise not found"]
  ELSE LET workout_data == WorkoutData(exercise_id)
           counted == UNION {SetsOf(we) : we \in {x \in dbLink :
                         x.exercise_id = exercise_id /\ \E w \in dbWorkout : w.id = x.workout_id}}
           max_weight_ever == MaxOf({0} \cup {s.weight * KG_TO_LBS : s \in counted})
       IN [history |-> workout_data, prs |-> Prs(workout_data, 1, 0),
           current_pr |-> Round1(max_weight_ever)]

\* timedelta(weeks=8), [:8], history[-5:], > 0.5, + 2.5 (in 1/100000 lb)
PredictionWeeks == 8
TopExercises == 8
LastSessions == 5
HalfPound == 50000
Increment == 250000

\* exercise_frequency: every link row of the table counts, whatever its workout.
ExerciseFrequency(ex) == Cardinality({we \in dbLink : we.exercise_id = ex})

\* sorted(exercise_frequency.items(), key=lambda x: x[1], reverse=True): the
\* dict holds the exercises in the order of their first link row, and the sort
\* is stable.
RankedExercises ==
  LET all_we == ById(dbLink)
      first(ex) == CHOOSE i \in DOMAIN all_we :
                     all_we[i].exercise_id = ex /\ \A j \in 1 .. i - 1 : all_we[j].exercise_id # ex
      exs == {we.exercise_id : we \in dbLink}
      pos(ex) == 1 + Cardinality({o \in exs :
                       \/ ExerciseFrequency(o) > ExerciseFrequency(ex)
                       \/ ExerciseFrequency(o) = ExerciseFrequency(ex) /\ first(o) < first(ex)})
  IN [k \in 1 .. Cardinality(exs) |-> CHOOSE ex \in exs : pos(ex) = k]

\* exercise_history[ex]: one entry per link row whose workout is among
\* recent_workouts and that has sets, in rowid order.
ExerciseHistory(ex, recent_workouts) ==
  LET rows == SelectSeq(ById({we \in dbLink : we.exercise_id = ex}),
                LAMBDA we : SetsOf(we) # {} /\ \E w \in recent_workouts : w.id = we.workout_id)
      entry(we) ==
        LET workout == CHOOSE w \in recent_workouts : w.id = we.workout_id
        IN [date |-> workout.started_at,
            max_weight |-> MaxOf({s.weight * KG_TO_LBS : s \in SetsOf(we)}),
            sets |-> Cardinality(SetsOf(we))]
  IN [i \in DOMAIN rows |-> entry(rows[i])]

\* round(recommended_weight / 2.5) * 2.5, for the weight num / den.
RoundToStep(num, den) == ((2 * num + den * Increment) \div (2 * den * Increment)) * Increment

\* The body of "for ex_id, freq in top_exercises" for an exercise it keeps.
\* progression_per_session is the fraction num / den.
Prediction(ex, exercise_history) ==
  LET history == SortByDate(exercise_history)
      n == Len(history)
      recent_sessions == SubSeq(history, Max(1, n - LastSessions + 1), n)
      recent_max_weights == [i \in DOMAIN recent_sessions |-> recent_sessions[i].max_weight]
      current_max == recent_max_weights[Len(recent_max_weights)]
      progression ==
        IF Len(recent_max_weights) >= 3
        THEN [num |-> current_max - recent_max_weights[1], den |-> Len(recent_max_weights) - 1]
        ELSE [num |-> 0, den |-> 1]
      rising == progression.num > HalfPound * progression.den
      steady == progression.num > (0 - HalfPound) * progression.den
  IN [exercise_id |-> ex,
      current_max_weight |-> current_max,
      recommended_weight |-> IF rising THEN RoundToStep(current_max + Increment, 1)
                             ELSE IF steady THEN RoundToStep(current_max, 1)
                             ELSE RoundToStep(current_max * 9, 10),
      confidence |-> IF rising THEN "high" ELSE "medium",
      reason |-> IF rising THEN "Consistent progression detected"
                 ELSE IF steady THEN "Maintain weight, focus on volume/form"
                 ELSE "Consider deload or form check",
      sessions_analyzed |-> Len(recent_sessions),
      progression_rate |-> progression]

\* workout_predictions() at the moment now; top_exercises is kept beside the
\* response.
WorkoutPredictions(now) ==
  LET cutoff_date == now - PredictionWeeks * Week
      recent_workouts == {w \in dbWorkout : w.started_at >= cutoff_date}
      ranked == RankedExercises
      top_exercises == SubSeq(ranked, 1, Min(TopExercises, Len(ranked)))
      kept == SelectSeq(top_exercises, LAMBDA ex : Len(ExerciseHistory(ex, recent_workouts)) >= 2)
  IN IF recent_workouts = {} THEN [predictions |-> <<>>, top_exercises |-> <<>>]
     ELSE [predictions |-> [i \in DOMAIN kept |->
                              Prediction(kept[i], ExerciseHistory(kept[i], recent_workouts))],
           top_exercises |-> top_exercises]

\* timedelta(weeks=6), len(workouts) < 6, len(sorted_weeks) < 4
DeloadWeeks == 6
MinWorkouts == 6
MinWeeks == 4

\* sum(...)
RECURSIVE SumSeq(_)
SumSeq(q) == IF q = <<>> THEN 0 ELSE Head(q) + SumSeq(Tail(q))

\* The volume of a set of SetLog rows: the sum of weight_lbs * reps.
RECURSIVE VolumeOf(_)
VolumeOf(rows) ==
  IF rows = {} THEN 0
  ELSE LET s == CHOOSE x \in rows : TRUE
       IN s.weight * KG_TO_LBS * s.reps + VolumeOf(rows \ {s})

VolumeDropAtTenPercent(first_2, last_2) == first_2 > 0 /\ (last_2 - first_2) * 10 < (0 - 1) * first_2

\* volume_drop_pct = ((last_2_avg - first_2_avg) / first_2_avg * 100) if
\* first_2_avg > 0 else 0; volume_drop_pct < -15.  first_2 and last_2 are the
\* sums of the two pairs of weeks, and both sides are divided by 5.
VolumeDrop(first_2, last_2) == first_2 > 0 /\ (last_2 - first_2) * 20 < (0 - 3) * first_2

\* volume_spike = ((recent_avg - avg_volume) / avg_volume * 100) if avg_volume >
\* 0 else 0; volume_spike > 30.  total is the sum of the n weekly volumes, and
\* both sides are divided by 20.
VolumeSpike(recent_2, total, n) == total > 0 /\ (recent_2 * n - 2 * total) * 5 > 3 * total

\* sum(1 for v in weekly_volumes[-4:] if v > avg_volume * 1.1) >= 3
HighVolumeWeeks(recent_4, total, n) ==
  Cardinality({i \in DOMAIN recent_4 : recent_4[i] * n * 10 > 11 * total}) >= 3

Insufficient == [needs_deload |-> FALSE, confidence |-> "low", score |-> 0, indicators |-> {}]

\* deload_detection() at the moment now.
DeloadDetection(now) ==
  LET cutoff_date == now - DeloadWeeks * Week
      workouts == {w \in dbWorkout : w.started_at >= cutoff_date}
      week_key(w) == WeekKey(DateOf(w.started_at))
      sorted_weeks == SortedKeys({week_key(w) : w \in workouts})
      counted(k) == UNION {SetsOf(we) : we \in {x \in dbLink :
                       \E w \in workouts : w.id = x.workout_id /\ week_key(w) = k}}
      weekly_volumes == [i \in DOMAIN sorted_weeks |-> VolumeOf(counted(sorted_weeks[i]))]
      n == Len(weekly_volumes)
      recent_4_weeks == SubSeq(weekly_volumes, n - 3, n)
      total == SumSeq(weekly_volumes)
      indicators ==
        (IF VolumeDrop(recent_4_weeks[1] + recent_4_weeks[2], recent_4_weeks[3] + recent_4_weeks[4])
         THEN {"drop"} ELSE {})
        \cup (IF VolumeSpike(weekly_volumes[n - 1] + weekly_volumes[n], total, n)
              THEN {"spike"} ELSE {})
        \cup (IF HighVolumeWeeks(recent_4_weeks, total, n) THEN {"high"} ELSE {})
      deload_score == 2 * Cardinality(indicators \cap {"drop", "spike"})
                        + Cardinality(indicators \cap {"high"})
  IN IF Cardinality(workouts) < MinWorkouts THEN Insufficient
     ELSE IF Len(sorted_weeks) < MinWeeks THEN Insufficient
     ELSE [needs_deload |-> deload_score >= 2,
           confidence |-> IF deload_score >= 3 THEN "high"
                          ELSE IF deload_score >= 2 THEN "medium" ELSE "low",
           score |-> deload_score, indicators |-> indicators]

\* ------------------------------------------------------ the inputs drawn
\* The moment of the call: Wednesday noon of 2024-W04, so that the trailing
\* weeks cross the year boundary.
Now == 16 * Week + 60

\* exercise_progress: up to MaxProgressSessions sessions of exercise 1, two on
\* Monday, one on Tuesday and one on Wednesday, in any order of insertion; and
\* the ladder 100, 95, 110, 110, 120 on five days.
ProgressSessions ==
  {Session(at, 1, kgs, 5) : at \in {8, 18, 32, 56}, kgs \in {<<95>>, <<100>>, <<110, 95>>, <<0>>}}
ProgressPlans ==
  {p \in SeqsUpTo(ProgressSessions, MaxProgressSessions) :
     \A i, j \in DOMAIN p : i # j => p[i].at # p[j].at}
Ladder ==
  LET kg == <<100, 95, 110, 110, 120>>
  IN [i \in DOMAIN kg |-> Session(24 * i + 8, 1, <<kg[i]>>, 5)]

\* workout_predictions: up to MaxRecentSessions sessions of two exercises, at
\* the window's start, inside it or just before it; and `old` exercises
\* (1 .. old) with `each` sessions long before the window, followed by a run of
\* daily sessions of one more exercise.
MaxOldExercises == 8
MaxRecentSessions == 3
MaxRunSessions == 6

OldSessions(old, each) ==
  [i \in 1 .. old * each |-> Session(Now - 12 * Week, ((i - 1) % old) + 1, <<100>>, 5)]
RecentSessions ==
  {Session(at, ex, <<kg>>, 5) :
     at \in {Now - PredictionWeeks * Week - 1, Now - PredictionWeeks * Week, Now - Week},
     ex \in {1, MaxOldExercises + 1}, kg \in {100, 110}}
RunPlans ==
  {[i \in 1 .. n |-> Session(Now - (n - i + 1) * 24, MaxOldExercises + 1, <<first + (i - 1) * d>>, 5)] :
     n \in 2 .. MaxRunSessions, first \in {100, 104}, d \in {0 - 4, 0 - 1, 0, 1, 4}}
PredictionPlans ==
  SeqsUpTo(RecentSessions, MaxRecentSessions)
  \cup {OldSessions(o[1], o[2]) \o r :
          o \in {<<0, 1>>, <<MaxOldExercises - 1, 3>>, <<MaxOldExercises, 1>>, <<MaxOldExercises, 3>>},
          r \in RunPlans}

\* deload_detection: six slots, the Monday of 2023-W50 (before the cut-off) and
\* days of W50, W51, W52, 2024-W01 and W03; an occupied slot holds n workouts,
\* the first with one set of one repetition, the others without logs.
MaxSlotWorkouts == 2
Slots == <<10 * Week + 8, 10 * Week + 104, 11 * Week + 8, 12 * Week + 8, 13 * Week + 8, 15 * Week + 8>>
SlotPlan(at, n, kg) ==
  [i \in 1 .. n |-> IF i = 1 THEN Session(at, 1, <<kg>>, 1) ELSE Session(at + i, 0, <<>>, 0)]
SlotOptions(k, n) ==
  {<<>>} \cup {SlotPlan(Slots[k], n, kg) : kg \in IF k = 1 THEN {20} ELSE {6, 17, 20, 24}}
RECURSIVE DeloadPlans(_, _)
DeloadPlans(k, n) ==
  IF k = 0 THEN {<<>>}
  ELSE {p \o q : p \in DeloadPlans(k - 1, n), q \in SlotOptions(k, n)}

NoInsight == [pc |-> "call", op |-> "", now |-> Now, exercise_id |-> 0, plan |-> <<>>, out |-> <<>>]

\* A metrics operation is called on a store reconciliation has filled.
InsightsInit ==
  /\ \E op \in {"exercise_progress", "workout_predictions", "deload_detection"} :
       \E plan \in (IF op = "exercise_progress" THEN ProgressPlans \cup {Ladder}
                    ELSE IF op = "workout_predictions" THEN PredictionPlans
                    ELSE UNION {DeloadPlans(Len(Slots), n) : n \in 1 .. MaxSlotWorkouts}) :
         \E ex \in (IF op = "exercise_progress" THEN {1, 2} ELSE {0}) :
           LET store == StoreOf(plan)
           IN /\ stats = [NoInsight EXCEPT !.op = op, !.exercise_id = ex, !.plan = plan]
              /\ dbWorkout = store.W
              /\ dbExercise = store.E
              /\ dbLink = store.L
              /\ dbSet = store.S
  /\ writer = 0 /\ session = [s \in Sessions |-> Idle] /\ runs = 0
  /\ committedPayloads = {} /\ concNew = [s \in Sessions |-> {}]
  /\ fetch = Off
  /\ norm = Off

\* GET /exercise/{exercise_id}/progress
exercise_progress ==
  /\ stats.pc = "call" /\ stats.op = "exercise_progress"
  /\ Answer(ExerciseProgress(stats.exercise_id))

\* GET /workout-predictions
workout_predictions ==
  /\ stats.pc = "call" /\ stats.op = "workout_predictions"
  /\ Answer(WorkoutPredictions(stats.now))

\* GET /deload-detection
deload_detection ==
  /\ stats.pc = "call" /\ stats.op = "deload_detection"
  /\ Answer(DeloadDetection(stats.now))

NextInsights == exercise_progress \/ workout_predictions \/ deload_detection

SpecInsights == InsightsInit /\ [][NextInsights]_vars

\* ---------------------------------------------------------- properties
Finished(s) == session[s].pc = "done"
NoDuplicateLink(rows) ==
  \A x, y \in rows : x.workout_id = y.workout_id /\ x.exercise_id = y.exercise_id => x = y
FirstIndex(ws, id) == CHOOSE i \in DOMAIN ws : ws[i].id = id /\ \A j \in 1 .. i - 1 : ws[j].id # id
SameFields(x, w) ==
  /\ x.id = w.id /\ x.title = w.title /\ x.started_at = w.started_at
  /\ x.ended_at = w.ended_at /\ x.notes = w.notes

\* C1: a run on a payload that an earlier, non-overlapping run has committed
\* reports 0 inserted workouts and leaves the Workout rows as they were, one row
\* per upstream id.
C1_IdempotentResync ==
  \A s \in Sessions :
    LET r == session[s]
    IN Finished(s) /\ r.workouts # <<>> /\ r.workouts \in r.prev =>
         /\ r.result = 0
         /\ dbWorkout = r.before.W
         /\ \A x, y \in dbWorkout : x.id = y.id => x = y

C1_Witness ==
  \E s \in Sessions :
    /\ Finished(s) /\ session[s].workouts \in session[s].prev
    /\ session[s].committed /\ ~session[s].raised
    /\ Len(session[s].workouts) = MaxBatch

\* C2: after any sequence of non-overlapping runs the store holds at most one
\* WorkoutExercise row per (workout id, exercise id), also for the rows a run
\* has flushed but not yet committed.
C2_LinkUniqueSequential ==
  /\ NoDuplicateLink(dbLink)
  /\ \A s \in Sessions : NoDuplicateLink(View(s).L)

C2_Witness ==
  \E s \in Sessions :
    LET ws == session[s].workouts
    IN /\ Finished(s) /\ session[s].committed /\ ws \in session[s].prev
       /\ Len(ws) = 1 /\ Len(ws[1].logs) = 2
       /\ ws[1].logs[1].exercise.id = ws[1].logs[2].exercise.id
       /\ \E l \in dbLink : l.workout_id = ws[1].id /\ l.exercise_id = ws[1].logs[1].exercise.id

\* C3: when two overlapping runs both process a workout that was in the store at
\* the start of neither, the committed store never holds two WorkoutExercise rows
\* for one (workout id, exercise id) of that workout.
C3_LinkUniqueConcurrentNew ==
  \A s \in Sessions : \A w \in concNew[s] :
    NoDuplicateLink({l \in dbLink : l.workout_id = w})

C3_Witness ==
  /\ \A s \in Sessions : Finished(s) /\ session[s].workouts = session[1].workouts
  /\ \E w \in concNew[1] \cap concNew[2] : \E l \in dbLink : l.workout_id = w

\* C4: at most one reconciliation run is in progress at any time.
C4_MutualExclusion == Cardinality({s \in Sessions : Running(s)}) <= 1

\* C5: every Set row, committed, flushed or pending, carries the assigned key of
\* a WorkoutExercise row that exists and that joins the workout and the exercise
\* of the log the set came from; no Set has a null parent key.
HasParent(x, links) ==
  /\ x.workout_exercise_id # NoId
  /\ \E l \in links : /\ l.id = x.workout_exercise_id
                      /\ l.workout_id = x.of_workout
                      /\ l.exercise_id = x.of_exercise

C5_SetParentExists ==
  /\ \A x \in dbSet : HasParent(x, dbLink)
  /\ \A s \in Sessions :
       \A x \in session[s].tx.S \cup Range(session[s].pend.S) : HasParent(x, View(s).L)

C5_Witness ==
  \E x, y \in dbSet :
    /\ x # y /\ x.workout_exercise_id = y.workout_exercise_id
    /\ \E l \in dbLink : l.id # x.workout_exercise_id

C7_ReportedCount ==
  \A s \in Sessions :
    Finished(s) => session[s].result = Cardinality(Ids(dbWorkout) \ Ids(session[s].before.W))

\* C8: a run started by POST /sync-now or POST /sync-all that an error ends is
\* answered with the error redirect.
C8_FailureSignal ==
  \A s \in Sessions :
    Finished(s) /\ session[s].raised /\ session[s].trigger # "scheduler" =>
      session[s].response.kind = "error"

\* C9: a Workout row keeps the title, start, end and notes of the run that
\* inserted it: rows present when a run starts are there unchanged ever after, on
\* both paths, and a row a run adds carries the fields of the first workout of
\* its payload with that id.
C9_WorkoutFirstWriteWins ==
  \A s \in Sessions :
    LET r == session[s]
    IN /\ r.pc # "idle" => r.before.W \subseteq dbWorkout
       /\ \A x, y \in dbWorkout : x.id = y.id => x = y
       /\ r.committed =>
            \A i \in DOMAIN r.workouts :
              r.workouts[i].id \notin Ids(r.before.W) =>
                \E x \in dbWorkout :
                  SameFields(x, r.workouts[FirstIndex(r.workouts, r.workouts[i].id)])

C9_Witness ==
  \E s \in Sessions, t \in {"sync_now", "sync_all"} :
    LET r == session[s]
    IN /\ Finished(s) /\ r.committed /\ ~r.raised /\ r.trigger = t
       /\ \E i \in DOMAIN r.workouts :
            /\ r.workouts[i].id \in Ids(r.before.W)
            /\ ~\E x \in dbWorkout : SameFields(x, r.workouts[i])

\* C10: there is one Exercise row per exercise id; a row keeps the name it was
\* inserted with when later logs carry another name; and after a committed run
\* every log of its payload has its exercise's row and a link row to it.
C10_ExerciseFirstWriteWins ==
  /\ \A x, y \in dbExercise : x.id = y.id => x = y
  /\ \A s \in Sessions :
       LET r == session[s]
       IN /\ r.pc # "idle" => r.before.E \subseteq dbExercise
          /\ r.committed =>
               \A i \in DOMAIN r.workouts : \A j \in DOMAIN r.workouts[i].logs :
                 LET log == r.workouts[i].logs[j]
                 IN /\ \E e \in dbExercise : e.id = log.exercise.id
                    /\ log.exercise.id \notin Ids(r.before.E) =>
                         \E e \in dbExercise : e.id = log.exercise.id /\ e.name = log.exercise.name
                    /\ \E l \in dbLink : /\ l.workout_id = r.workouts[i].id
                                         /\ l.exercise_id = log.exercise.id

C10_Witness ==
  \E s \in Sessions :
    LET r == session[s]
    IN /\ Finished(s) /\ r.committed /\ ~r.raised
       /\ \E i \in DOMAIN r.workouts : \E j \in DOMAIN r.workouts[i].logs :
            LET log == r.workouts[i].logs[j]
            IN /\ log.exercise.id \in Ids(r.before.E)
               /\ \E e \in dbExercise : e.id = log.exercise.id /\ e.name # log.exercise.name
\* The sets of the payload ws that belong to workout w and exercise e, by
\* position (workout, log, set).
SetPositions(ws, w, e) ==
  {p \in (1 .. MaxBatch) \X (1 .. MaxLogs) \X (1 .. MaxSets) :
     /\ p[1] \in DOMAIN ws /\ ws[p[1]].id = w
     /\ p[2] \in DOMAIN ws[p[1]].logs /\ ws[p[1]].logs[p[2]].exercise.id = e
     /\ p[3] \in DOMAIN ws[p[1]].logs[p[2]].sets}

\* C11: a run never changes or removes a Set row that was in the store when it
\* started, and a run whose commit completed, on either path, has added for every
\* (workout, exercise) exactly as many Set rows as its payload holds sets for that
\* pair, each under the pair's link row, whether or not the workout, the exercise
\* and the link were already stored.
C11_SetsAppendOnly ==
  \A s \in Sessions :
    LET r == session[s]
        added == dbSet \ r.before.S
    IN /\ r.pc # "idle" => r.before.S \subseteq dbSet
       /\ r.committed =>
            /\ \A w \in WorkoutIds, e \in ExerciseIds :
                 Cardinality({x \in added : x.of_workout = w /\ x.of_exercise = e})
                   = Cardinality(SetPositions(r.workouts, w, e))
            /\ \A x \in added : HasParent(x, dbLink)

C11_Witness ==
  \E s \in Sessions, t \in Triggers :
    LET r == session[s]
    IN /\ Finished(s) /\ r.committed /\ ~r.raised /\ r.trigger = t
       /\ r.workouts \in r.prev
       /\ \E l \in r.before.L :
            /\ SetPositions(r.workouts, l.workout_id, l.exercise_id) # {}
            /\ Cardinality({x \in dbSet : x.workout_exercise_id = l.id})
                 = 2 * Cardinality(SetPositions(r.workouts, l.workout_id, l.exercise_id))
\* The kilogram figures a raw record carries: the values under weight_kg,
\* weight and kg of the sets of its inline logs and of its detail resource.
KgValues(raw, detail) ==
  LET sets == UNION {Range(l.sets) : l \in Range(raw.logs) \cup Range(detail.logs)}
  IN UNION {{x.weight_kg, x.weight, x.kg} : x \in sets} \ {Absent}

\* C17: every Set row built from a raw record, on the latest path, the backfill
\* path and the detail fallback, carries a kilogram figure of the record (or 0
\* when it has none), never the figure under lbs; and a record whose one log has
\* one set with weight_kg = 50, reps = 5 is stored as weight 50, reps 5.
C17_KilogramsStored ==
  norm.pc = "stored" =>
    /\ \A i \in DOMAIN norm.rows : norm.rows[i].weight \in KgValues(norm.raw, norm.detail) \cup {0}
    /\ (/\ Len(norm.raw.logs) = 1 /\ ~Malformed(norm.raw.logs[1]) /\ KeepPrimary(norm.raw.logs[1])
        /\ norm.raw.logs[1].sets = <<PlainSet>>)
         => /\ Len(norm.rows) = 1
            /\ norm.rows[1].weight = 50 /\ norm.rows[1].reps = 5
IsPrimary(q) == q.try = 1
Returned == fetch.pc = "done"

C13_LatestPaginationStop ==
  fetch.pc # "off" /\ fetch.mode = "latest" =>
    LET prim == SelectSeq(fetch.requests, IsPrimary)
        counts == fetch.counts
    IN /\ \A i \in DOMAIN prim : prim[i].page = i
       /\ \A i \in DOMAIN fetch.requests :
            LET p == fetch.requests[i].page
            IN /\ p - 1 <= Len(counts)
               /\ \A j \in 1 .. p - 1 : counts[j] > 0
               /\ SumSeq(SubSeq(counts, 1, p - 1)) < fetch.limit
       /\ Len(prim) <= fetch.limit
       /\ fetch.pc \in {"parse", "close", "done"} /\ fetch.stop # "error" =>
            /\ Len(prim) = Len(counts)
            /\ Len(fetch.items) = SumSeq(counts)
            /\ counts[Len(counts)] = 0 \/ SumSeq(counts) >= fetch.limit
            /\ counts = <<5, 5, 0>> /\ fetch.retried = 0 =>
                 Len(fetch.items) = 10 /\ Len(fetch.requests) = 3

C13_Witness ==
  /\ Returned /\ fetch.mode = "latest" /\ fetch.counts = <<5, 5, 0>>
  /\ Len(fetch.requests) = 3 /\ Len(fetch.result) = 10

\* C14: fetch_latest_workouts(limit = N) returns at most N workouts.
C14_LatestBound ==
  Returned /\ fetch.mode = "latest" => Len(fetch.result) <= fetch.limit

\* Every request was answered with a page or with a 401 that a retry recovered.
Recovered ==
  /\ fetch.stop = "empty"
  /\ \A i \in DOMAIN fetch.requests :
       LET q == fetch.requests[i]
       IN (q.status = 200 /\ q.body = "items") \/ q.status = 401

\* C15: fetch_all_workouts against an upstream of n workouts that answers every
\* request with its page, or with a 401 that the retry recovers, returns the
\* workouts 1 .. n, each once and in order, for every page_size.
C15_BackfillComplete ==
  Returned /\ fetch.mode = "all" /\ Recovered /\ ~fetch.escaped =>
    /\ Len(fetch.result) = fetch.up.n
    /\ \A i \in DOMAIN fetch.result : fetch.result[i].id = Str(i)

Answered(op) == stats.pc = "done" /\ stats.op = op

\* C18: weekly_workouts returns exactly 12 labels and 12 counts whatever the
\* store holds, and every workout that started in the window (from now - 12
\* weeks on) is counted in one of those buckets.
C18_WeeklyTwelveBuckets ==
  Answered("weekly_workouts") =>
    /\ Len(stats.out.labels) = 12
    /\ Len(stats.out.data) = 12
    /\ SumSeq(stats.out.data)
         = Cardinality({w \in dbWorkout : w.started_at >= stats.now - 12 * 7})

\* The weeks, counted from day 0, that hold a workout; the runs of consecutive
\* such weeks, as pairs (first, last).
WorkoutWeekNumbers == {w.started_at \div 7 : w \in dbWorkout}
WeekRuns ==
  {r \in WorkoutWeekNumbers \X WorkoutWeekNumbers :
     r[1] <= r[2] /\ \A k \in r[1] .. r[2] : k \in WorkoutWeekNumbers}

\* C19: summary's longest streak is the length of the longest run of consecutive
\* ISO weeks that each hold a workout, across the year boundary too; its current
\* streak is the length of the run that ends at the present ISO week, 0 when
\* that week holds none; current <= longest; and workouts in 2024-W01, W02 and
\* W04 with today past W05 give longest 2 and current 0.
C19_Streaks ==
  Answered("summary") =>
    LET this == stats.now \div 7
    IN /\ \A r \in WeekRuns : r[2] - r[1] + 1 <= stats.out.weeks_longest
       /\ WorkoutWeekNumbers = {} => stats.out.weeks_longest = 0
       /\ WorkoutWeekNumbers # {} => \E r \in WeekRuns : r[2] - r[1] + 1 = stats.out.weeks_longest
       /\ stats.out.weeks_current = Cardinality({r \in WeekRuns : r[2] = this})
       /\ stats.out.weeks_current <= stats.out.weeks_longest
       /\ {WeekKey(w.started_at) : w \in dbWorkout} = {<<2024, 1>>, <<2024, 2>>, <<2024, 4>>}
            /\ KeyBefore(<<2024, 5>>, WeekKey(stats.now))
            => stats.out.weeks_longest = 2 /\ stats.out.weeks_current = 0

C19_Witness ==
  /\ Answered("summary")
  /\ {WeekKey(w.started_at) : w \in dbWorkout} = {<<2023, 52>>, <<2024, 1>>, <<2024, 2>>, <<2024, 4>>}
  /\ WeekKey(stats.now) = <<2024, 2>>
  /\ stats.out.weeks_longest = 3 /\ stats.out.weeks_current = 3

Taxonomy == {"Chest", "Back", "Shoulders", "Biceps", "Triceps", "Legs", "Core", "Cardio", "Other"}

\* C20: a name that, whatever its letter case, contains "bicep" and "tricep" is
\* categorized "Triceps", whatever other keywords it contains; every name gets
\* one label of the taxonomy, and "Other" exactly when no keyword of the table
\* is a substring of the case-folded name.
C20_TricepsPrecedence ==
  Answered("categorize_exercise") =>
    LET name_lower == Lower(stats.name)
    IN /\ Contains(name_lower, "bicep") /\ Contains(name_lower, "tricep") => stats.out = "Triceps"
       /\ stats.out \in Taxonomy
       /\ stats.out = "Other" <=>
            ~\E i \in DOMAIN MUSCLE_GROUPS : AnyKeyword(name_lower, MUSCLE_GROUPS[i].keywords)

C20_Witness ==
  /\ Answered("categorize_exercise")
  /\ stats.name = "BicepTRICEPCurl"
  /\ stats.out = "Triceps"

\* The link rows of an exercise that have sets, in the order their workouts
\* started, and the greatest weight of each, in tenths of a pound.
Chronological(ex) ==
  LET rows == {we \in dbLink : we.exercise_id = ex /\ SetsOf(we) # {}}
      at(we) == (CHOOSE w \in dbWorkout : w.id = we.workout_id).started_at
      rank(we) == 1 + Cardinality({o \in rows : at(o) < at(we)})
  IN [k \in 1 .. Cardinality(rows) |-> CHOOSE we \in rows : rank(we) = k]
MaxLbs(we) == Round1(MaxOf({s.weight * KG_TO_LBS : s \in SetsOf(we)}))

\* C21: exercise_progress emits a PR for exactly the workouts whose greatest
\* weight (when the workout lifted any) is above that of every workout that
\* started earlier, in the order the workouts started; so the PR weights
\* increase strictly and the last one is current_pr; and the maxima 100, 95,
\* 110, 110, 120 give three PRs, at 100, 110 and 120.
C21_PrLadder ==
  Answered("exercise_progress") /\ stats.exercise_id \in Ids(dbExercise) =>
    LET chron == Chronological(stats.exercise_id)
        records == SelectSeq([k \in DOMAIN chron |->
                                [k |-> k, weight |-> MaxLbs(chron[k]),
                                 date |-> DateOf((CHOOSE w \in dbWorkout :
                                                    w.id = chron[k].workout_id).started_at)]],
                     LAMBDA r : r.weight > 0 /\ \A j \in 1 .. r.k - 1 : MaxLbs(chron[j]) < r.weight)
        prs == stats.out.prs
    IN /\ Len(prs) = Len(records)
       /\ \A i \in DOMAIN prs : prs[i].weight = records[i].weight /\ prs[i].date = records[i].date
       /\ \A i \in 1 .. Len(prs) - 1 : prs[i].weight < prs[i + 1].weight
       /\ prs # <<>> => prs[Len(prs)].weight = stats.out.current_pr
       /\ stats.plan = Ladder =>
            [i \in DOMAIN prs |-> prs[i].weight]
              = <<Round1(100 * KG_TO_LBS), Round1(110 * KG_TO_LBS), Round1(120 * KG_TO_LBS)>>

\* The workouts of the trailing six weeks, the weeks (counted from hour 0) that
\* hold one, and the volume lifted in such a week.
DeloadWindow == {w \in dbWorkout : w.started_at >= stats.now - DeloadWeeks * Week}
WindowWeeks == {w.started_at \div Week : w \in DeloadWindow}
WeekVolume(k) ==
  VolumeOf({s \in dbSet : \E we \in dbLink, w \in DeloadWindow :
              /\ s.workout_exercise_id = we.id /\ we.workout_id = w.id
              /\ w.started_at \div Week = k})
\* The i-th latest of the weeks of the window.
Latest(i) == CHOOSE k \in WindowWeeks : Cardinality({o \in WindowWeeks : o > k}) = i - 1

\* C22: with at least 6 workouts over at least 4 weeks in the trailing six
\* weeks, deload_detection raises the volume-drop indicator exactly when the
\* mean volume of the two latest weeks is more than 15% below the mean of the
\* two weeks before them (so for weekly volumes as 1000, 1000, 1200, 300), the
\* indicator is worth 2 points, needs_deload is true exactly when the score is
\* at least 2, and confidence is high exactly when it is at least 3; with fewer
\* workouts or fewer weeks needs_deload is false and confidence is low.
C22_DeloadVerdict ==
  Answered("deload_detection") =>
    IF Cardinality(DeloadWindow) >= 6 /\ Cardinality(WindowWeeks) >= 4
    THEN LET recent == WeekVolume(Latest(1)) + WeekVolume(Latest(2))
             before == WeekVolume(Latest(3)) + WeekVolume(Latest(4))
             drop == "drop" \in stats.out.indicators
         IN /\ drop <=> recent * 100 < 85 * before
            /\ drop => stats.out.score >= 2 /\ stats.out.needs_deload
            /\ stats.out.needs_deload <=> stats.out.score >= 2
            /\ stats.out.confidence = "high" <=> stats.out.score >= 3
            /\ (/\ WeekVolume(Latest(4)) > 0
                /\ WeekVolume(Latest(3)) = WeekVolume(Latest(4))
                /\ WeekVolume(Latest(2)) * 10 = WeekVolume(Latest(4)) * 12
                /\ WeekVolume(Latest(1)) * 10 = WeekVolume(Latest(4)) * 3) => drop
    ELSE ~stats.out.needs_deload /\ stats.out.confidence = "low"

C22_Witness ==
  /\ Answered("deload_detection")
  /\ Cardinality(DeloadWindow) = 8 /\ Cardinality(WindowWeeks) = 4
  /\ <<WeekVolume(Latest(4)), WeekVolume(Latest(3)), WeekVolume(Latest(2)), WeekVolume(Latest(1))>>
       = <<20 * KG_TO_LBS, 20 * KG_TO_LBS, 24 * KG_TO_LBS, 6 * KG_TO_LBS>>
  /\ stats.out.needs_deload /\ "drop" \in stats.out.indicators

\* The requests the fetch has sent for page p.
RequestsFor(p) == {i \in DOMAIN fetch.requests : fetch.requests[i].page = p}

\* C23: a list-page request answered 401 is followed by at most one more
\* request for that page, whatever credentials are configured; a request other
\* than the first for a page is sent only after a 401; a retry that succeeds
\* supplies the page; and when it fails the fetch ends in the HTTP error with
\* the empty list.
C23_SingleRetry ==
  fetch.pc # "off" =>
    /\ \A i \in DOMAIN fetch.requests :
         LET q == fetch.requests[i]
         IN /\ Cardinality(RequestsFor(q.page)) <= 2
            /\ q.try > 1 => \E j \in 1 .. i - 1 :
                              /\ fetch.requests[j].page = q.page
                              /\ fetch.requests[j].try = 1 /\ fetch.requests[j].status = 401
            /\ q.try > 1 /\ q.status = 200 /\ q.body = "items" => Len(fetch.counts) >= q.page
    /\ Returned /\ fetch.requests # <<>> =>
         LET q == fetch.requests[Len(fetch.requests)]
         IN q.try > 1 /\ q.status >= 400 => fetch.httpError /\ fetch.result = <<>>

\* The inline logs of a raw record that are mappings and pass the retention
\* rule.
WellFormedLogs(raw) == SelectSeq(raw.logs, LAMBDA rl : ~Malformed(rl) /\ KeepPrimary(rl))

\* C24: when a fetch whose pages all arrived parses records that are mappings,
\* a log that is not a mapping costs only itself: every record is returned, in
\* order, and each carries all its well-formed inline logs.
C24_PerRecordIsolation ==
  Returned /\ fetch.stop # "error" /\ ~fetch.escaped =>
    /\ Len(fetch.result) = Len(fetch.items)
    /\ \A i \in DOMAIN fetch.result :
         LET good == WellFormedLogs(fetch.items[i])
         IN /\ fetch.result[i].id = Str(fetch.items[i].id)
            /\ good # <<>> =>
                 fetch.result[i].logs = [j \in DOMAIN good |-> PrimaryLog(good[j], fetch.mode)]

Normalized == norm.pc \in {"canonical", "stored"} /\ ~norm.out.escaped

\* C25: every exercise log of a normalized workout, from the inline collection
\* or from the detail resource, has a resolved identifier or a name other than
\* "Unknown"; no log is kept as the exercise with id "Unknown" and name
\* "Unknown", which is what a log without identifier and without name resolves
\* to.
C25_LogRetention ==
  Normalized =>
    \A i \in DOMAIN norm.out.workout.logs :
      LET log == norm.out.workout.logs[i]
      IN ~(log.exercise.id = "Unknown" /\ log.exercise.name = "Unknown")

\* The first of weight_kg, weight that the raw set carries, 0 when neither.
FirstPresent(rs) ==
  IF rs.weight_kg # Absent THEN rs.weight_kg
  ELSE IF rs.weight # Absent THEN rs.weight
  ELSE 0

\* C26: on the inline logs of a list record, on both paths, the weight of every
\* set is the value under weight_kg when the key is there (0 included), else
\* the value under weight when that is there, else 0; kg and lbs are not read.
C26_FirstPresentWins ==
  Normalized /\ ~norm.out.asked =>
    LET kept == WellFormedLogs(norm.raw)
        logs == norm.out.workout.logs
    IN /\ Len(logs) = Len(kept)
       /\ \A i \in DOMAIN logs :
            /\ Len(logs[i].sets) = Len(kept[i].sets)
            /\ \A j \in DOMAIN logs[i].sets :
                 logs[i].sets[j].weight = FirstPresent(kept[i].sets[j])

\* The sessions of an exercise inside the prediction window, oldest first.
WindowSessions(ex) ==
  SortByDate(ExerciseHistory(ex, {w \in dbWorkout :
                                    w.started_at >= stats.now - PredictionWeeks * Week}))

\* C27: every prediction analyses the last up-to-5 sessions of an exercise
\* with at least 2 sessions; its per-session delta is (last max - first max) /
\* (sessions - 1), for 2 sessions too; a delta above 0.5 lb recommends the
\* current max + 2.5 lb with confidence "high", a delta above -0.5 lb the
\* current max with "medium", any other 0.9 times the current max with
\* "medium"; and the recommended weight is a multiple of 2.5 lb.
C27_PredictionPolicy ==
  Answered("workout_predictions") =>
    \A i \in DOMAIN stats.out.predictions :
      LET p == stats.out.predictions[i]
          sessions == WindowSessions(p.exercise_id)
          n == Min(LastSessions, Len(sessions))
          last == sessions[Len(sessions)].max_weight
          first == sessions[Len(sessions) - n + 1].max_weight
          up == last - first > HalfPound * (n - 1)
          level == ~up /\ last - first > (0 - HalfPound) * (n - 1)
      IN /\ n >= 2 /\ p.sessions_analyzed = n
         /\ p.progression_rate.num * (n - 1) = (last - first) * p.progression_rate.den
         /\ p.confidence = IF up THEN "high" ELSE "medium"
         /\ p.recommended_weight = IF up THEN RoundToStep(last + Increment, 1)
                                   ELSE IF level THEN RoundToStep(last, 1)
                                   ELSE RoundToStep(last * 9, 10)
         /\ p.recommended_weight % Increment = 0

\* The link rows of an exercise whose workout started in the trailing 8 weeks.
WindowFrequency(ex) ==
  Cardinality({we \in dbLink :
     /\ we.exercise_id = ex
     /\ \E w \in dbWorkout : w.id = we.workout_id
                             /\ w.started_at >= stats.now - PredictionWeeks * Week})

\* C28: workout_predictions ranks by the occurrences inside the trailing 8
\* weeks: no exercise left out of the top 8 has more occurrences in the window
\* than one that is in it, and an exercise with 2 or more sessions in the window
\* that fewer than 8 exercises outdo in the window gets a prediction.
C28_PredictionWindow ==
  Answered("workout_predictions") =>
    LET exs == {we.exercise_id : we \in dbLink}
        top == Range(stats.out.top_exercises)
        predicted == {stats.out.predictions[i].exercise_id : i \in DOMAIN stats.out.predictions}
    IN /\ \A a \in top, b \in exs \ top : WindowFrequency(b) <= WindowFrequency(a)
       /\ \A b \in exs :
            /\ Len(WindowSessions(b)) >= 2
            /\ Cardinality({a \in exs : WindowFrequency(a) > WindowFrequency(b)}) < TopExercises
            => b \in predicted

\* C29: in a run of its own, whatever ids its batch repeats, the INSERTs of the
\* flushes and of the commit meet no key that is already there; when the run
\* reaches its commit, inserted counts every new id once; and after the commit
\* the store holds one Workout row for every id of the batch.
C29_RepeatedIdInBatch ==
  \A s \in Sessions :
    LET r == session[s]
    IN /\ r.pc \in {"flush", "commit"} => FlushOk(View(s), r.pend)
       /\ r.pc = "commit" => r.inserted = Cardinality(Fresh(r))
       /\ r.committed =>
            \A i \in DOMAIN r.workouts :
              Cardinality({x \in dbWorkout : x.id = r.workouts[i].id}) = 1

\* C30: every exercise log of a normalized workout, inline or from the detail
\* resource, carries a non-empty exercise id, so the Exercise row reconciliation
\* builds from it has a non-empty key.
C30_NonEmptyExerciseId ==
  Normalized =>
    \A i \in DOMAIN norm.out.workout.logs :
      /\ norm.out.workout.logs[i].exercise.id # ""
      /\ ExerciseRow(norm.out.workout.logs[i]).id # ""
=============================================================================
